---- MODULE Spec2Model ----
(***************************************************************************)
(* The concurrent image pipeline of rquent (pipeline.go): readURLs feeds   *)
(* jobs to the download workers, the jobs pass the summarize and cleanup   *)
(* workers and are written by writeResults; failures go through errorChn   *)
(* to handleErrors, which re-sends or evicts them.  writeResults and       *)
(* handleError start the shutdown broadcast when isDone() holds.           *)
(*                                                                         *)
(* The channels downloadChn, summarizeChn, cleanupChn, saveChn and doneChn *)
(* are unbuffered: a send is one step taken jointly by the sender and a    *)
(* receiver that waits in its select (or range).  errorChn is buffered.    *)
(***************************************************************************)
EXTENDS Integers, Sequences, FiniteSets, TLC

\* ------------------------------------------------------------------ bounds
MaxSubjects == 2
\* Failures of the outside world (network, decoder, file system, output)
\* that one run of the pipeline meets.
MaxFaults == 3
\* Pixels of the image that getPrevalentColors scans, and the RGB values
\* they take.
MaxPixels == 6
MaxColors == 4
\* Worker counts of a PipeConfig range over -1..MaxCount.
MaxCount == 2
\* Calls of cleanupImage made in a row on one job.
MaxCalls == 2

\* ------------------------------------------------------- program constants
nDownload == 1
nSummarize == 1
nCleanup == 1
ErrorChnCap == 1000

RqErrorDownload == 0
RqErrorSummarize == 1
RqErrorSave == 2
RqErrorCleanup == 3
RqErrorNoRetry == 4

RqJobMaxFails == 3

\* ------------------------------------------------------------------- state
VARIABLES
    sourceURLs,    \* the lines of the source not yet scanned (subjects)
    outFile,       \* rows written: subject -> number of rows
    imageCount,    \* RqPipeline.imageCount
    readURLsDone,  \* RqPipeline.readURLsDone
    errorChn,      \* buffered channel of RqError
    stopOnce,      \* sync.Once of the pool: "idle", "running", "done"
    closed,        \* how many times closeChns closed the channels
    wg,            \* sync.WaitGroup counter
    panicked,      \* a Go runtime panic ended the program
    tmpFiles,      \* temp files on disk: subject -> number of files
    faults,        \* failures the outside world has produced so far
    faultBudget,   \* failures the outside world produces at most in this run
    mpc,           \* Run: "init", "running", "returned"
    rpc, rjob,     \* readURLs: position and the job it is sending
    spc, sjob, serr, si,  \* writeResults: position, job, record, token index
    hpc, herr, hi, \* handleErrors: position, record in hand, token index
    wpc, wjob, werr,      \* stage workers: position, job, record to report
    admitted,      \* history: number of subjects readURLs has scanned
    evicted,       \* history: subject -> number of terminal evictions
    handled,       \* history: subject -> records received by handleError
    reached,       \* history: subject -> furthest stage that received it
    failLog,       \* history: subject -> stage -> failures of that stage
    attempts,      \* history: subject -> stage -> runs of the stage function
    broadcasts,    \* history: times the body of stopOnce.Do was started
    tokensSent,    \* history: tokens sent on doneChn
    counts,        \* getPrevalentColors: the map counts
    mostColors,    \* getPrevalentColors: the slice mostColors
    scanned,       \* getPrevalentColors: pixels visited so far
    cfg,           \* the PipeConfig given to NewPipeline
    hasSource,     \* pipe.sourceURLs != nil
    hasOutput,     \* pipe.outFile != nil
    initResult,    \* Init(): "none" (not called), "nil" or "error"
    cjob,          \* direct calls of cleanupImage: the job passed next
    cNext,         \* direct calls: jobs received on the job's nextChn
    cErrs,         \* direct calls: records received on errorChn
    cFiles,        \* direct calls: the job's temp files on disk
    cCalls         \* direct calls: calls made so far

vars == <<sourceURLs, outFile, imageCount, readURLsDone, errorChn, stopOnce,
          closed, wg, panicked, tmpFiles, faults, faultBudget, mpc, rpc, rjob,
          spc, sjob, serr, si,
          hpc, herr, hi, wpc, wjob, werr, admitted, evicted, handled, reached,
          failLog, attempts, broadcasts, tokensSent, counts, mostColors,
          scanned, cfg, hasSource, hasOutput, initResult, cjob, cNext,
          cErrs, cFiles, cCalls>>

Subjects == 1..MaxSubjects

StageNames == {"download", "summarize", "cleanup"}

Workers == ({"download"} \X (1..nDownload))
             \cup ({"summarize"} \X (1..nSummarize))
             \cup ({"cleanup"} \X (1..nCleanup))

\* Run executes the last cleanup worker on the main goroutine.
MainWorker == <<"cleanup", nCleanup>>

NoJob == [url |-> 0, filePath |-> "", summary |-> FALSE,
          retryChn |-> "nil", nextChn |-> "nil", nFails |-> 0]

NoError == [job |-> NoJob, errorType |-> -1]

\* A source of n lines holds the subjects 1..n.
SourceOf(n) == [i \in 1..n |-> i]

\* The input channel of a stage.
InChn(stage) ==
    CASE stage = "download" -> "downloadChn"
      [] stage = "summarize" -> "summarizeChn"
      [] stage = "cleanup" -> "cleanupChn"

\* A wiring in which the download stage forwards past the summarize stage.
OutChnSkip(stage) ==
    CASE stage = "download" -> "cleanupChn"
      [] stage = "summarize" -> "cleanupChn"
      [] stage = "cleanup" -> "saveChn"

\* The channel a stage forwards to.
OutChn(stage) ==
    CASE stage = "download" -> "summarizeChn"
      [] stage = "summarize" -> "cleanupChn"
      [] stage = "cleanup" -> "saveChn"

\* The error kind a stage function reports.
ErrKind(stage) ==
    CASE stage = "download" -> RqErrorDownload
      [] stage = "summarize" -> RqErrorSummarize
      [] stage = "cleanup" -> RqErrorCleanup

\* Position of a stage in the pipeline order (history bookkeeping).
StageIdx(stage) ==
    CASE stage = "download" -> 1
      [] stage = "summarize" -> 2
      [] stage = "cleanup" -> 3
      [] stage = "save" -> 4

\* ------------------------------------------------------- pure functions
\* NewRqJob in readURLs: a fresh job with no channels bound.
NewRqJob(u) == [url |-> u, filePath |-> "", summary |-> FALSE,
                retryChn |-> "nil", nextChn |-> "nil", nFails |-> 0]

\* A NewRqError that counts the failure twice.
NewRqErrorTwice(job, errorType) ==
    [job |-> [job EXCEPT !.nFails = @ + 2], errorType |-> errorType]

\* A NewRqError that forgets to count the failure.
NewRqErrorNoCount(job, errorType) == [job |-> job, errorType |-> errorType]

NewRqError(job, errorType) ==
    [job |-> [job EXCEPT !.nFails = @ + 1], errorType |-> errorType]

\* A worker that binds the channels of a job only when they are unbound.
RebindOnce(stage, job) ==
    IF job.retryChn = "nil"
    THEN [job EXCEPT !.retryChn = InChn(stage), !.nextChn = OutChn(stage)]
    ELSE [job EXCEPT !.nextChn = OutChn(stage)]

\* A rebinding that resets the failure count when a job changes stage.
RebindReset(stage, job) ==
    [job EXCEPT !.retryChn = InChn(stage), !.nextChn = OutChn(stage),
                !.nFails = IF job.retryChn = InChn(stage) THEN @ ELSE 0]

\* A worker that binds only nextChn.
RebindNext(stage, job) == [job EXCEPT !.nextChn = OutChn(stage)]

\* The rebinding a worker does on every dequeue.
Rebind(stage, job) ==
    [job EXCEPT !.retryChn = InChn(stage), !.nextChn = OutChn(stage)]

\* An eviction test that lets non-retryable records be retried.
ShouldEvictNoKind(jobError) ==
    \/ jobError.job.nFails >= RqJobMaxFails
    \/ jobError.job.retryChn = "nil"

\* An eviction test with > in place of >=.
ShouldEvictLate(jobError) ==
    \/ jobError.errorType = RqErrorNoRetry
    \/ jobError.job.nFails > RqJobMaxFails
    \/ jobError.job.retryChn = "nil"

\* The eviction test of handleError.
ShouldEvict(jobError) ==
    \/ jobError.errorType = RqErrorNoRetry
    \/ jobError.job.nFails >= RqJobMaxFails
    \/ jobError.job.retryChn = "nil"

\* atomic.AddUint64(&imageCount, 1)
IncCount(c) == c + 1

\* A decrement that subtracts two.
DecCountTwo(c) == c - 2

\* atomic.AddUint64(&imageCount, ^uint64(0)); the value -1 stands for the
\* wrapped value 2^64 - 1 (two's complement reading of the uint64).
DecCount(c) == c - 1

\* isDone without the readURLsDone conjunct.
isDoneCountOnly == imageCount = 0

\* isDone without the imageCount conjunct.
isDoneReaderOnly == readURLsDone

isDone == readURLsDone /\ imageCount = 0

\* nWorkers of stopWorkers.
NWorkers == nDownload + nSummarize + nCleanup + 1

\* A Do that runs the body for every caller.
OnceFirstNoLatch(once) == TRUE

\* stopOnce.Do runs the body for the first caller only.
OnceFirst(once) == once = "idle"

\* stopOnce.Do returns at once when the body has completed.
OnceReturns(once) == once = "done"

Running == mpc = "running" /\ ~panicked

\* -------------------------------------------------------------- initial
\* The state NewPipeline and Run's callers leave, whatever the source.
InitPipeline ==
    /\ outFile = [s \in Subjects |-> 0]
    /\ imageCount = 0
    /\ readURLsDone = FALSE
    /\ errorChn = <<>>
    /\ stopOnce = "idle"
    /\ closed = 0
    /\ wg = 0
    /\ panicked = FALSE
    /\ tmpFiles = [s \in Subjects |-> 0]
    /\ faults = 0
    /\ mpc = "init"
    /\ rpc = "idle" /\ rjob = NoJob
    /\ spc = "idle" /\ sjob = NoJob /\ serr = NoError /\ si = 0
    /\ hpc = "idle" /\ herr = NoError /\ hi = 0
    /\ wpc = [w \in Workers |-> "idle"]
    /\ wjob = [w \in Workers |-> NoJob]
    /\ werr = [w \in Workers |-> NoError]
    /\ admitted = 0
    /\ evicted = [s \in Subjects |-> 0]
    /\ handled = [s \in Subjects |-> 0]
    /\ reached = [s \in Subjects |-> 0]
    /\ failLog = [s \in Subjects |-> [k \in StageNames \cup {"save"} |-> 0]]
    /\ attempts = [s \in Subjects |-> [k \in StageNames |-> 0]]
    /\ broadcasts = 0
    /\ tokensSent = 0

\* color.NRGBA as <<rgb, alpha>>; PlaceholderColor is the zero value.
PlaceholderColor == <<0, 0>>

\* The colors getPrevalentColors counts: every pixel with A set to 255.
OpaqueColors == (0..(MaxColors - 1)) \X {255}

\* The pixels an image can hold.
Pixels == (0..(MaxColors - 1)) \X {0, 255}

\* getPrevalentColors before its loop: counts[PlaceholderColor] = 0 (a
\* missing key reads as 0) and three placeholders.
InitImageVars ==
    /\ counts = [c \in OpaqueColors \cup {PlaceholderColor} |-> 0]
    /\ mostColors = <<PlaceholderColor, PlaceholderColor, PlaceholderColor>>
    /\ scanned = 0

\* The configuration the pipeline runs with: Init() returned nil.
InitConfigVars ==
    /\ cfg = [Download |-> nDownload, Summarize |-> nSummarize,
              Cleanup |-> nCleanup]
    /\ hasSource = TRUE
    /\ hasOutput = TRUE
    /\ initResult = "nil"

\* No direct call of cleanupImage is made.
InitCallVars ==
    /\ cjob = NoJob
    /\ cNext = <<>>
    /\ cErrs = <<>>
    /\ cFiles = 0
    /\ cCalls = 0

Init ==
    /\ sourceURLs \in {SourceOf(n) : n \in 0..MaxSubjects}
    /\ faultBudget = MaxFaults
    /\ InitPipeline
    /\ InitImageVars
    /\ InitConfigVars
    /\ InitCallVars

readerVars == <<rpc, rjob>>
writerVars == <<spc, sjob, serr, si>>
handlerVars == <<hpc, herr, hi>>
workerVars == <<wpc, wjob, werr>>
counterVars == <<imageCount, readURLsDone>>
poolVars == <<stopOnce, closed, wg, panicked, mpc>>
sourceVars == <<sourceURLs, admitted, faultBudget>>
shutdownHist == <<broadcasts, tokensSent>>
jobHist == <<evicted, handled, reached, failLog, faults, attempts>>
imageVars == <<counts, mostColors, scanned>>
configVars == <<cfg, hasSource, hasOutput, initResult>>
callVars == <<cjob, cNext, cErrs, cFiles, cCalls>>
unitVars == <<imageVars, configVars, callVars>>
pipelineVars == <<sourceVars, outFile, counterVars, errorChn, poolVars,
                  tmpFiles, readerVars, writerVars, handlerVars, workerVars,
                  jobHist, shutdownHist>>

Max(a, b) == IF a >= b THEN a ELSE b

\* Workers that take from their channel whatever they are doing.
ReceiversAny(chn) == {w \in Workers : InChn(w[1]) = chn /\ wpc[w] # "exit"}

\* The workers that wait in their select on the channel chn.
Receivers(chn) == {w \in Workers : InChn(w[1]) = chn /\ wpc[w] = "select"}

\* ------------------------------------------------------- stage functions
\* What a stage function does with the job it is given: "ok" with the job
\* to send on nextChn, or "err" with the record to send on errorChn;
\* created is the change in the number of temp files on disk.

\* A downloadImage that forwards a fresh job for the URL.
downloadImageFresh(job) ==
    { [kind |-> "err", job |-> NoJob, created |-> 0,
       err |-> NewRqError(job, RqErrorDownload)],
      [kind |-> "err", job |-> NoJob, created |-> 1,
       err |-> NewRqError(job, RqErrorDownload)],
      [kind |-> "ok", created |-> 1, err |-> NoError,
       job |-> [NewRqJob(job.url) EXCEPT !.filePath = "tmp",
                                         !.retryChn = job.retryChn,
                                         !.nextChn = job.nextChn]] }

\* downloadImage: ioutil.TempFile fails (nothing created), or
\* downloadToFile fails (the file is closed, not removed, and the job does
\* not learn its name), or the job gets the file's name.
downloadImage(job) ==
    { [kind |-> "err", job |-> NoJob, created |-> 0,
       err |-> NewRqError(job, RqErrorDownload)],
      [kind |-> "err", job |-> NoJob, created |-> 1,
       err |-> NewRqError(job, RqErrorDownload)],
      [kind |-> "ok", job |-> [job EXCEPT !.filePath = "tmp"], created |-> 1,
       err |-> NoError] }

\* A summarizeImage that reports a failure and still forwards the job.
summarizeImageBoth(job) ==
    { [kind |-> "ok", job |-> [job EXCEPT !.summary = TRUE], created |-> 0,
       err |-> NewRqError(job, RqErrorSummarize)],
      [kind |-> "ok", job |-> [job EXCEPT !.summary = TRUE], created |-> 0,
       err |-> NoError] }

\* A summarizeImage that reports its failures as download failures.
summarizeImageKind(job) ==
    { [kind |-> "err", job |-> NoJob, created |-> 0,
       err |-> NewRqError(job, RqErrorDownload)],
      [kind |-> "ok", job |-> [job EXCEPT !.summary = TRUE], created |-> 0,
       err |-> NoError] }

\* summarizeImage: os.Open, image.Decode or getPrevalentColors fails, or
\* the job gets its summary.
summarizeImage(job) ==
    { [kind |-> "err", job |-> NoJob, created |-> 0,
       err |-> NewRqError(job, RqErrorSummarize)],
      [kind |-> "ok", job |-> [job EXCEPT !.summary = TRUE], created |-> 0,
       err |-> NoError] }

\* A cleanupImage that calls os.Remove whatever filePath is.
cleanupImageAlways(job) ==
    { [kind |-> "err", job |-> NoJob, created |-> 0,
       err |-> NewRqError(job, RqErrorCleanup)],
      [kind |-> "ok", job |-> [job EXCEPT !.filePath = ""],
       created |-> -1, err |-> NoError] }

\* A cleanupImage that forwards the job when os.Remove fails, as the code
\* does for a nil errorChn.
cleanupImageForward(job) ==
    IF job.filePath = ""
    THEN { [kind |-> "ok", job |-> job, created |-> 0, err |-> NoError] }
    ELSE { [kind |-> "ok", job |-> [job EXCEPT !.filePath = ""],
            created |-> 0, err |-> NoError],
           [kind |-> "ok", job |-> [job EXCEPT !.filePath = ""],
            created |-> -1, err |-> NoError] }

\* cleanupImage: a job with no file is forwarded as it is; otherwise
\* os.Remove fails (errorChn is never nil in the pipeline) or the file is
\* removed and filePath emptied.
cleanupImage(job) ==
    IF job.filePath = ""
    THEN { [kind |-> "ok", job |-> job, created |-> 0, err |-> NoError] }
    ELSE { [kind |-> "err", job |-> NoJob, created |-> 0,
            err |-> NewRqError(job, RqErrorCleanup)],
           [kind |-> "ok", job |-> [job EXCEPT !.filePath = ""],
            created |-> -1, err |-> NoError] }

\* One iteration of a worker's loop on a dequeued job: rebind, then the
\* stage function, up to its channel send.
Work(stage, job) ==
    CASE stage = "download" -> downloadImage(Rebind(stage, job))
      [] stage = "summarize" -> summarizeImage(Rebind(stage, job))
      [] stage = "cleanup" -> cleanupImage(Rebind(stage, job))

\* The outcomes the outside world can still produce.
Outcomes(stage, job) ==
    {o \in Work(stage, job) : o.kind = "ok" \/ faults < faultBudget}

\* Where the worker stands after the stage function: at its send.
SendPc(o) == IF o.kind = "ok" THEN "sendNext" ELSE "sendErr"

\* The effect of worker w dequeuing job with outcome o on the disk and on
\* the history.
Dequeued(w, job, o) ==
    /\ tmpFiles' = [tmpFiles EXCEPT ![job.url] = @ + o.created]
    /\ reached' = [reached EXCEPT ![job.url] = Max(@, StageIdx(w[1]))]
    /\ failLog' = IF o.kind = "ok" THEN failLog
                  ELSE [failLog EXCEPT ![job.url][w[1]] = @ + 1]
    /\ attempts' = [attempts EXCEPT ![job.url][w[1]] = @ + 1]
    /\ faults' = IF o.kind = "ok" THEN faults ELSE faults + 1

\* ------------------------------------------------------------------- Run
\* Run starts readURLs, writeResults, handleErrors and the workers; every
\* wg.Add(1) of Run precedes wg.Wait.
Run ==
    /\ mpc = "init"
    /\ mpc' = "running"
    /\ wg' = wg + 1 + nDownload + nSummarize + (nCleanup - 1) + 1
    /\ rpc' = "scan"
    /\ spc' = "recv"
    /\ hpc' = "select"
    /\ wpc' = [w \in Workers |-> "select"]
    /\ UNCHANGED <<unitVars,
                   sourceVars, outFile, counterVars, errorChn, stopOnce,
                   closed, panicked, tmpFiles, rjob, sjob, serr, si, herr, hi,
                   wjob, werr, jobHist, shutdownHist>>

\* A Run that calls closeChns when its own worker has returned, without
\* wg.Wait.
RunWaitEarly ==
    /\ Running
    /\ wpc[MainWorker] = "exit"
    /\ closed' = closed + 1
    /\ panicked' = \/ closed > 0
                   \/ rpc = "send"
                   \/ spc = "sendErr"
                   \/ spc = "bcast" /\ si < NWorkers
                   \/ hpc = "resend"
                   \/ hpc = "bcast" /\ hi < NWorkers
                   \/ \E w \in Workers : wpc[w] \in {"sendNext", "sendErr"}
    /\ spc' = IF spc = "recv" THEN "exit" ELSE spc
    /\ mpc' = "returned"
    /\ UNCHANGED <<unitVars,
                   sourceVars, outFile, counterVars, errorChn, stopOnce, wg,
                   tmpFiles, readerVars, sjob, serr, si, handlerVars,
                   workerVars, jobHist, shutdownHist>>

\* wg.Wait returns when the counter is zero; closeChns then closes every
\* channel.  A goroutine blocked in a send on a closed channel panics, a
\* second close panics, and the range of writeResults ends.
RunWait ==
    /\ Running
    /\ wpc[MainWorker] = "exit"
    /\ wg = 0
    /\ closed' = closed + 1
    /\ panicked' = \/ closed > 0
                   \/ rpc = "send"
                   \/ spc = "sendErr"
                   \/ spc = "bcast" /\ si < NWorkers
                   \/ hpc = "resend"
                   \/ hpc = "bcast" /\ hi < NWorkers
                   \/ \E w \in Workers : wpc[w] \in {"sendNext", "sendErr"}
    /\ spc' = IF spc = "recv" THEN "exit" ELSE spc
    /\ mpc' = "returned"
    /\ UNCHANGED <<unitVars,
                   sourceVars, outFile, counterVars, errorChn, stopOnce, wg,
                   tmpFiles, readerVars, sjob, serr, si, handlerVars,
                   workerVars, jobHist, shutdownHist>>

\* -------------------------------------------------------------- readURLs
\* scanner.Scan() yields a line: count it, build the job.
ReadURLsScan ==
    /\ Running
    /\ rpc = "scan"
    /\ sourceURLs # <<>>
    /\ imageCount' = IncCount(imageCount)
    /\ rjob' = NewRqJob(Head(sourceURLs))
    /\ sourceURLs' = Tail(sourceURLs)
    /\ rpc' = "send"
    /\ admitted' = admitted + 1
    /\ UNCHANGED <<unitVars,
                   faultBudget, outFile, readURLsDone, errorChn, poolVars, tmpFiles,
                   writerVars, handlerVars, workerVars, jobHist, shutdownHist>>

\* downloadChn <- job, taken by a download worker waiting in its select,
\* which runs downloadImage on it.
ReadURLsSend ==
    /\ Running
    /\ rpc = "send"
    /\ \E w \in Receivers("downloadChn") :
          \E o \in Outcomes(w[1], rjob) :
             /\ wpc' = [wpc EXCEPT ![w] = SendPc(o)]
             /\ wjob' = [wjob EXCEPT ![w] = o.job]
             /\ werr' = [werr EXCEPT ![w] = o.err]
             /\ Dequeued(w, rjob, o)
    /\ rpc' = "scan"
    /\ rjob' = NoJob
    /\ UNCHANGED <<unitVars,
                   sourceVars, outFile, counterVars, errorChn, poolVars,
                   writerVars, handlerVars, evicted, handled, shutdownHist>>

\* The scanner is exhausted: set readURLsDone under the mutex and return.
ReadURLsFinish ==
    /\ Running
    /\ rpc = "scan"
    /\ sourceURLs = <<>>
    /\ readURLsDone' = TRUE
    /\ rpc' = "exit"
    /\ UNCHANGED <<unitVars,
                   sourceVars, outFile, imageCount, errorChn, poolVars,
                   tmpFiles, rjob, writerVars, handlerVars, workerVars,
                   jobHist, shutdownHist>>

\* --------------------------------------------------------- stage workers
\* job.nextChn <- job, taken by a worker of the next stage waiting in its
\* select, which runs its stage function on it.
WorkerSendNext(w) ==
    /\ Running
    /\ wpc[w] = "sendNext"
    /\ \E w2 \in Receivers(wjob[w].nextChn) :
          \E o \in Outcomes(w2[1], wjob[w]) :
             /\ wpc' = [wpc EXCEPT ![w] = "select", ![w2] = SendPc(o)]
             /\ wjob' = [wjob EXCEPT ![w] = NoJob, ![w2] = o.job]
             /\ werr' = [werr EXCEPT ![w2] = o.err]
             /\ Dequeued(w2, wjob[w], o)
    /\ UNCHANGED <<unitVars,
                   sourceVars, outFile, counterVars, errorChn, poolVars,
                   readerVars, writerVars, handlerVars, evicted, handled,
                   shutdownHist>>

\* A worker whose error report is delivered twice.
WorkerSendErrTwice(w) ==
    /\ Running
    /\ wpc[w] = "sendErr"
    /\ Len(errorChn) < ErrorChnCap
    /\ errorChn' = Append(Append(errorChn, werr[w]), werr[w])
    /\ werr' = [werr EXCEPT ![w] = NoError]
    /\ wpc' = [wpc EXCEPT ![w] = "select"]
    /\ UNCHANGED <<unitVars,
                   sourceVars, outFile, counterVars, poolVars, tmpFiles,
                   readerVars, writerVars, handlerVars, wjob, jobHist,
                   shutdownHist>>

\* errorChn <- NewRqError(...), blocking while the buffer is full.
WorkerSendErr(w) ==
    /\ Running
    /\ wpc[w] = "sendErr"
    /\ Len(errorChn) < ErrorChnCap
    /\ errorChn' = Append(errorChn, werr[w])
    /\ werr' = [werr EXCEPT ![w] = NoError]
    /\ wpc' = [wpc EXCEPT ![w] = "select"]
    /\ UNCHANGED <<unitVars,
                   sourceVars, outFile, counterVars, poolVars, tmpFiles,
                   readerVars, writerVars, handlerVars, wjob, jobHist,
                   shutdownHist>>

\* ---------------------------------------------------------- writeResults
\* job.nextChn <- job on saveChn, taken by the range of writeResults, whose
\* outFile.Write succeeds: one row for the job.
WriteResultsWrite(w) ==
    /\ Running
    /\ wpc[w] = "sendNext"
    /\ wjob[w].nextChn = "saveChn"
    /\ spc = "recv"
    /\ wpc' = [wpc EXCEPT ![w] = "select"]
    /\ wjob' = [wjob EXCEPT ![w] = NoJob]
    /\ reached' = [reached EXCEPT ![wjob[w].url] = Max(@, StageIdx("save"))]
    /\ sjob' = wjob[w]
    /\ outFile' = [outFile EXCEPT ![wjob[w].url] = @ + 1]
    /\ spc' = "dec"
    /\ UNCHANGED <<unitVars,
                   sourceVars, counterVars, errorChn, poolVars, tmpFiles,
                   readerVars, serr, si, handlerVars, werr, evicted,
                   attempts, handled, failLog, faults, shutdownHist>>

\* A writeResults that reports a failed write with the kind RqErrorSave.
WriteResultsWriteFailSave(w) ==
    /\ Running
    /\ wpc[w] = "sendNext"
    /\ wjob[w].nextChn = "saveChn"
    /\ spc = "recv"
    /\ faults < faultBudget
    /\ wpc' = [wpc EXCEPT ![w] = "select"]
    /\ wjob' = [wjob EXCEPT ![w] = NoJob]
    /\ reached' = [reached EXCEPT ![wjob[w].url] = Max(@, StageIdx("save"))]
    /\ serr' = NewRqError(wjob[w], RqErrorSave)
    /\ failLog' = [failLog EXCEPT ![wjob[w].url]["save"] = @ + 1]
    /\ faults' = faults + 1
    /\ spc' = "sendErr"
    /\ UNCHANGED <<unitVars,
                   sourceVars, outFile, counterVars, errorChn, poolVars,
                   tmpFiles, readerVars, sjob, si, handlerVars, werr,
                   evicted, handled, attempts, shutdownHist>>

\* The same receive with outFile.Write failing: the job is to be reported
\* as RqErrorNoRetry.
WriteResultsWriteFail(w) ==
    /\ Running
    /\ wpc[w] = "sendNext"
    /\ wjob[w].nextChn = "saveChn"
    /\ spc = "recv"
    /\ faults < faultBudget
    /\ wpc' = [wpc EXCEPT ![w] = "select"]
    /\ wjob' = [wjob EXCEPT ![w] = NoJob]
    /\ reached' = [reached EXCEPT ![wjob[w].url] = Max(@, StageIdx("save"))]
    /\ serr' = NewRqError(wjob[w], RqErrorNoRetry)
    /\ failLog' = [failLog EXCEPT ![wjob[w].url]["save"] = @ + 1]
    /\ faults' = faults + 1
    /\ spc' = "sendErr"
    /\ UNCHANGED <<unitVars,
                   sourceVars, outFile, counterVars, errorChn, poolVars,
                   tmpFiles, readerVars, sjob, si, handlerVars, werr,
                   evicted, handled, attempts, shutdownHist>>

\* pipe.pool.errorChn <- NewRqError(job, RqErrorNoRetry, ...); continue
WriteResultsSendErr ==
    /\ Running
    /\ spc = "sendErr"
    /\ Len(errorChn) < ErrorChnCap
    /\ errorChn' = Append(errorChn, serr)
    /\ serr' = NoError
    /\ spc' = "recv"
    /\ UNCHANGED <<unitVars,
                   sourceVars, outFile, counterVars, poolVars, tmpFiles,
                   readerVars, sjob, si, handlerVars, workerVars, jobHist,
                   shutdownHist>>

\* atomic.AddUint64(&pipe.imageCount, ^uint64(0))
WriteResultsDec ==
    /\ Running
    /\ spc = "dec"
    /\ imageCount' = DecCount(imageCount)
    /\ spc' = "check"
    /\ UNCHANGED <<unitVars,
                   sourceVars, outFile, readURLsDone, errorChn, poolVars,
                   tmpFiles, readerVars, sjob, serr, si, handlerVars,
                   workerVars, jobHist, shutdownHist>>

\* A writeResults that goes back to its range without asking isDone().
WriteResultsCheckSkipped ==
    /\ Running
    /\ spc = "check"
    /\ spc' = "recv"
    /\ sjob' = NoJob
    /\ UNCHANGED <<unitVars,
                   sourceVars, outFile, counterVars, errorChn, poolVars,
                   tmpFiles, readerVars, serr, si, handlerVars, workerVars,
                   jobHist, shutdownHist>>

\* if pipe.isDone() { stopWorkers(); return } else the next range step.
WriteResultsCheck ==
    /\ Running
    /\ spc = "check"
    /\ spc' = IF isDone THEN "stop" ELSE "recv"
    /\ sjob' = NoJob
    /\ UNCHANGED <<unitVars,
                   sourceVars, outFile, counterVars, errorChn, poolVars,
                   tmpFiles, readerVars, serr, si, handlerVars, workerVars,
                   jobHist, shutdownHist>>

\* stopWorkers called by writeResults: stopOnce.Do starts the body for the
\* first caller, returns for a caller that finds it completed, and blocks a
\* caller that finds it running.
WriteResultsStop ==
    /\ Running
    /\ spc = "stop"
    /\ IF OnceFirst(stopOnce)
       THEN /\ stopOnce' = "running"
            /\ broadcasts' = broadcasts + 1
            /\ spc' = "bcast"
            /\ si' = 0
       ELSE /\ OnceReturns(stopOnce)
            /\ spc' = "exit"
            /\ UNCHANGED <<stopOnce, broadcasts, si>>
    /\ UNCHANGED <<unitVars,
                   sourceVars, outFile, counterVars, errorChn, closed, wg,
                   panicked, mpc, tmpFiles, readerVars, sjob, serr,
                   handlerVars, workerVars, jobHist, tokensSent>>

\* A worker that takes a token and stays in its loop.
WriteResultsTokenWorkerStays ==
    /\ Running
    /\ spc = "bcast"
    /\ si < NWorkers
    /\ \E w \in Workers : wpc[w] = "select"
    /\ wg' = wg - 1
    /\ si' = si + 1
    /\ tokensSent' = tokensSent + 1
    /\ UNCHANGED <<unitVars,
                   sourceVars, outFile, counterVars, errorChn, stopOnce,
                   closed, panicked, mpc, tmpFiles, readerVars, spc, sjob,
                   serr, handlerVars, workerVars, jobHist, broadcasts>>

\* pool.doneChn <- 1, taken by a stage worker in its select: it exits.
WriteResultsTokenWorker ==
    /\ Running
    /\ spc = "bcast"
    /\ si < NWorkers
    /\ \E w \in Workers :
          /\ wpc[w] = "select"
          /\ wpc' = [wpc EXCEPT ![w] = "exit"]
    /\ wg' = wg - 1
    /\ si' = si + 1
    /\ tokensSent' = tokensSent + 1
    /\ UNCHANGED <<unitVars,
                   sourceVars, outFile, counterVars, errorChn, stopOnce,
                   closed, panicked, mpc, tmpFiles, readerVars, spc, sjob,
                   serr, handlerVars, wjob, werr, jobHist, broadcasts>>

\* pool.doneChn <- 1, taken by handleErrors in its select: it exits.
WriteResultsTokenHandler ==
    /\ Running
    /\ spc = "bcast"
    /\ si < NWorkers
    /\ hpc = "select"
    /\ hpc' = "exit"
    /\ wg' = wg - 1
    /\ si' = si + 1
    /\ tokensSent' = tokensSent + 1
    /\ UNCHANGED <<unitVars,
                   sourceVars, outFile, counterVars, errorChn, stopOnce,
                   closed, panicked, mpc, tmpFiles, readerVars, spc, sjob,
                   serr, herr, hi, workerVars, jobHist, broadcasts>>

\* The loop of the body is over: stopOnce.Do marks the Once done,
\* stopWorkers returns and writeResults returns.
WriteResultsStopped ==
    /\ Running
    /\ spc = "bcast"
    /\ si = NWorkers
    /\ stopOnce' = "done"
    /\ spc' = "exit"
    /\ UNCHANGED <<unitVars,
                   sourceVars, outFile, counterVars, errorChn, closed, wg,
                   panicked, mpc, tmpFiles, readerVars, sjob, serr, si,
                   handlerVars, workerVars, jobHist, shutdownHist>>

\* ---------------------------------------------------------- handleErrors
\* case jobError := <-pipe.pool.errorChn, then handleError's eviction
\* branch up to isDone: os.Remove(filePath), whose result is ignored (it
\* removes the job's temp file, or fails), and the decrement.
HandleErrorEvict ==
    /\ Running
    /\ hpc = "select"
    /\ errorChn # <<>>
    /\ ShouldEvict(Head(errorChn))
    /\ LET jobError == Head(errorChn) IN
          /\ \/ /\ tmpFiles' = IF jobError.job.filePath = "" THEN tmpFiles
                               ELSE [tmpFiles EXCEPT
                                       ![jobError.job.url] = @ - 1]
                /\ UNCHANGED faults
             \/ /\ jobError.job.filePath # ""
                /\ faults < faultBudget
                /\ faults' = faults + 1
                /\ UNCHANGED tmpFiles
          /\ evicted' = [evicted EXCEPT ![jobError.job.url] = @ + 1]
          /\ handled' = [handled EXCEPT ![jobError.job.url] = @ + 1]
    /\ errorChn' = Tail(errorChn)
    /\ imageCount' = DecCount(imageCount)
    /\ hpc' = "check"
    /\ UNCHANGED <<unitVars,
                   sourceVars, outFile, readURLsDone, poolVars, readerVars,
                   writerVars, herr, hi, workerVars, reached, failLog, attempts,
                   shutdownHist>>

\* handleError, eviction branch: if pipe.isDone() { stopWorkers() }; return
HandleErrorCheck ==
    /\ Running
    /\ hpc = "check"
    /\ hpc' = IF isDone THEN "stop" ELSE "select"
    /\ UNCHANGED <<unitVars,
                   sourceVars, outFile, counterVars, errorChn, poolVars,
                   tmpFiles, readerVars, writerVars, herr, hi, workerVars,
                   jobHist, shutdownHist>>

\* A handleErrors that reads the head of errorChn and leaves it there.
HandleErrorRetryPeek ==
    /\ Running
    /\ hpc = "select"
    /\ errorChn # <<>>
    /\ ~ShouldEvict(Head(errorChn))
    /\ herr' = Head(errorChn)
    /\ errorChn' = errorChn
    /\ handled' = [handled EXCEPT ![Head(errorChn).job.url] = @ + 1]
    /\ hpc' = "resend"
    /\ UNCHANGED <<unitVars,
                   sourceVars, outFile, counterVars, poolVars, tmpFiles,
                   readerVars, writerVars, hi, workerVars, evicted, attempts,
                   reached, failLog, faults, shutdownHist>>

\* case jobError := <-pipe.pool.errorChn, then handleError's retry branch
\* up to its send on retryChn.
HandleErrorRetry ==
    /\ Running
    /\ hpc = "select"
    /\ errorChn # <<>>
    /\ ~ShouldEvict(Head(errorChn))
    /\ herr' = Head(errorChn)
    /\ errorChn' = Tail(errorChn)
    /\ handled' = [handled EXCEPT ![Head(errorChn).job.url] = @ + 1]
    /\ hpc' = "resend"
    /\ UNCHANGED <<unitVars,
                   sourceVars, outFile, counterVars, poolVars, tmpFiles,
                   readerVars, writerVars, hi, workerVars, evicted, attempts,
                   reached, failLog, faults, shutdownHist>>

\* jobError.job.retryChn <- jobError.job, taken by a worker that waits in
\* its select on that channel and runs its stage function on the job.
HandleErrorResend ==
    /\ Running
    /\ hpc = "resend"
    /\ \E w \in Receivers(herr.job.retryChn) :
          \E o \in Outcomes(w[1], herr.job) :
             /\ wpc' = [wpc EXCEPT ![w] = SendPc(o)]
             /\ wjob' = [wjob EXCEPT ![w] = o.job]
             /\ werr' = [werr EXCEPT ![w] = o.err]
             /\ Dequeued(w, herr.job, o)
    /\ herr' = NoError
    /\ hpc' = "select"
    /\ UNCHANGED <<unitVars,
                   sourceVars, outFile, counterVars, errorChn, poolVars,
                   readerVars, writerVars, hi, evicted, handled,
                   shutdownHist>>

\* stopWorkers called by handleError (see WriteResultsStop).
HandleErrorStop ==
    /\ Running
    /\ hpc = "stop"
    /\ IF OnceFirst(stopOnce)
       THEN /\ stopOnce' = "running"
            /\ broadcasts' = broadcasts + 1
            /\ hpc' = "bcast"
            /\ hi' = 0
       ELSE /\ OnceReturns(stopOnce)
            /\ hpc' = "select"
            /\ UNCHANGED <<stopOnce, broadcasts, hi>>
    /\ UNCHANGED <<unitVars,
                   sourceVars, outFile, counterVars, errorChn, closed, wg,
                   panicked, mpc, tmpFiles, readerVars, writerVars, herr,
                   workerVars, jobHist, tokensSent>>

\* The body of stopWorkers run by handleError: each pool.doneChn <- 1 is
\* taken by a stage worker in its select (handleErrors itself is not in
\* its select); after the loop the Once is done and handleError returns.
HandleErrorBroadcast ==
    /\ Running
    /\ hpc = "bcast"
    /\ IF hi < NWorkers
       THEN /\ \E w \in Workers :
                  /\ wpc[w] = "select"
                  /\ wpc' = [wpc EXCEPT ![w] = "exit"]
            /\ wg' = wg - 1
            /\ hi' = hi + 1
            /\ tokensSent' = tokensSent + 1
            /\ UNCHANGED <<stopOnce, hpc>>
       ELSE /\ stopOnce' = "done"
            /\ hpc' = "select"
            /\ UNCHANGED <<wpc, wg, hi, tokensSent>>
    /\ UNCHANGED <<unitVars,
                   sourceVars, outFile, counterVars, errorChn, closed,
                   panicked, mpc, tmpFiles, readerVars, writerVars, herr,
                   wjob, werr, jobHist, broadcasts>>

\* ----------------------------------------------------------- transitions
Next ==
    \/ Run
    \/ RunWait
    \/ ReadURLsScan
    \/ ReadURLsSend
    \/ ReadURLsFinish
    \/ \E w \in Workers :
          \/ WorkerSendNext(w)
          \/ WorkerSendErr(w)
          \/ WriteResultsWrite(w)
          \/ WriteResultsWriteFail(w)
    \/ WriteResultsSendErr
    \/ WriteResultsDec
    \/ WriteResultsCheck
    \/ WriteResultsStop
    \/ WriteResultsTokenWorker
    \/ WriteResultsTokenHandler
    \/ WriteResultsStopped
    \/ HandleErrorEvict
    \/ HandleErrorCheck
    \/ HandleErrorRetry
    \/ HandleErrorResend
    \/ HandleErrorStop
    \/ HandleErrorBroadcast

Spec == Init /\ [][Next]_vars

\* The Go scheduler runs a goroutine whenever one can take a step.
FairSpec == Spec /\ WF_vars(Next)

\* The pipeline constructed on a source of two subjects, A = 1 and B = 2.
InitAB == Init /\ sourceURLs = SourceOf(2)

ScenarioAB == InitAB /\ [][Next]_vars /\ WF_vars(Next)

\* The pipeline constructed on a source of one subject, in a world that
\* can fail once more than RqJobMaxFails times.
InitOne ==
    /\ sourceURLs = SourceOf(1)
    /\ faultBudget = MaxFaults + 1
    /\ InitPipeline
    /\ InitImageVars
    /\ InitConfigVars
    /\ InitCallVars

SpecOne == InitOne /\ [][Next]_vars


\* ---------------------------------------------------- getPrevalentColors
\* An update that puts a new color in the last slot whatever the slots
\* hold.
updateMostFrequentColorsLast(m, c, cnt) ==
    IF c \in {m[1], m[2], m[3]}
    THEN IF c = m[2] /\ cnt[c] > cnt[m[1]] THEN <<m[2], m[1], m[3]>>
         ELSE IF c = m[3] /\ cnt[c] > cnt[m[2]] THEN <<m[1], m[3], m[2]>>
         ELSE m
    ELSE IF cnt[c] > cnt[m[3]] THEN [m EXCEPT ![3] = c] ELSE m

\* updateMostFrequentColors: a color already in the slice is swapped with
\* its left neighbour when its count is now greater (one swap, the first j
\* that applies); another color whose count exceeds that of the last slot
\* takes the first placeholder slot, or the last slot.
updateMostFrequentColors(m, c, cnt) ==
    IF c \in {m[1], m[2], m[3]}
    THEN IF c = m[2] /\ cnt[c] > cnt[m[1]] THEN <<m[2], m[1], m[3]>>
         ELSE IF c = m[3] /\ cnt[c] > cnt[m[2]] THEN <<m[1], m[3], m[2]>>
         ELSE m
    ELSE IF cnt[c] > cnt[m[3]]
         THEN IF m[1] = PlaceholderColor THEN [m EXCEPT ![1] = c]
              ELSE IF m[2] = PlaceholderColor THEN [m EXCEPT ![2] = c]
              ELSE [m EXCEPT ![3] = c]
         ELSE m

\* The conversion of a pixel in the loop: NRGBA with c.A = 255.
Opaque(p) == <<p[1], 255>>

\* One iteration of the loop of getPrevalentColors on the next pixel of
\* the image; mostColors is what the function returns if the image ends
\* here.
ScanPixel ==
    /\ scanned < MaxPixels
    /\ \E p \in Pixels :
          LET c == Opaque(p)
              cnt == [counts EXCEPT ![c] = @ + 1]
          IN /\ counts' = cnt
             /\ mostColors' = updateMostFrequentColors(mostColors, c, cnt)
    /\ scanned' = scanned + 1
    /\ UNCHANGED <<pipelineVars, configVars, callVars>>

NextImage == ScanPixel

\* No pipeline runs: the state NewPipeline leaves, with nothing to read.
InitIdle ==
    /\ sourceURLs = <<>>
    /\ faultBudget = 0
    /\ InitPipeline

InitImage ==
    /\ InitIdle
    /\ InitImageVars
    /\ InitConfigVars
    /\ InitCallVars

SpecImage == InitImage /\ [][NextImage]_vars

\* ------------------------------------------------------------------ Init
\* An Init that accepts a pipeline without workers of some stage.
InitReturnsLax(c, src, out) ==
    IF c.Download < 0 \/ c.Summarize < 0 \/ c.Cleanup < 0 THEN "error"
    ELSE IF ~src THEN "error"
    ELSE IF ~out THEN "error"
    ELSE "nil"

\* RqPipeline.Init: the three tests in the order of the code.
InitReturns(c, src, out) ==
    IF c.Download <= 0 \/ c.Summarize <= 0 \/ c.Cleanup <= 0 THEN "error"
    ELSE IF ~src THEN "error"
    ELSE IF ~out THEN "error"
    ELSE "nil"

\* pipe.Init() on the pipeline as NewPipeline, WithSource and WithOutput
\* left it.
CallInit ==
    /\ initResult = "none"
    /\ initResult' = InitReturns(cfg, hasSource, hasOutput)
    /\ UNCHANGED <<pipelineVars, imageVars, callVars, cfg, hasSource,
                   hasOutput>>

NextConfig == CallInit

\* A pipeline built from any PipeConfig, with or without WithSource and
\* WithOutput, before Init is called.
InitConfig ==
    /\ InitIdle
    /\ InitImageVars
    /\ InitCallVars
    /\ cfg \in [Download : -1..MaxCount, Summarize : -1..MaxCount,
                Cleanup : -1..MaxCount]
    /\ hasSource \in BOOLEAN
    /\ hasOutput \in BOOLEAN
    /\ initResult = "none"

SpecConfig == InitConfig /\ [][NextConfig]_vars

\* ---------------------------------------------- cleanupImage, called alone
\* cleanupImage(job, errorChn) called directly, as the tests do, with
\* buffered channels: the job sent on nextChn is passed to the next call,
\* and after a failure the job of the record is.  os.Remove can only
\* succeed on a file that exists.
CleanupCall ==
    /\ cCalls < MaxCalls
    /\ cjob # NoJob
    /\ \E o \in cleanupImage(cjob) :
          /\ cFiles + o.created >= 0
          /\ cFiles' = cFiles + o.created
          /\ IF o.kind = "ok"
             THEN /\ cNext' = Append(cNext, o.job)
                  /\ cjob' = o.job
                  /\ UNCHANGED cErrs
             ELSE /\ cErrs' = Append(cErrs, o.err)
                  /\ cjob' = o.err.job
                  /\ UNCHANGED cNext
    /\ cCalls' = cCalls + 1
    /\ UNCHANGED <<pipelineVars, imageVars, configVars>>

NextCleanup == CleanupCall

\* Any job of the cleanup stage, with or without a file path, whose file
\* exists or not.
InitCleanup ==
    /\ InitIdle
    /\ InitImageVars
    /\ InitConfigVars
    /\ cjob \in [url : Subjects, filePath : {"", "tmp"}, summary : BOOLEAN,
                 retryChn : {"nil", "cleanupChn"}, nextChn : {"saveChn"},
                 nFails : 0..(RqJobMaxFails - 1)]
    /\ cNext = <<>>
    /\ cErrs = <<>>
    /\ cFiles \in {0, 1}
    /\ cCalls = 0

SpecCleanup == InitCleanup /\ [][NextCleanup]_vars

\* ------------------------------------------------------------ vocabulary
\* The number of places that hold job s on its way through the pipeline:
\* a pending send of readURLs, of a worker, of handleError or of
\* writeResults, or the buffer of errorChn.
Holders(s) ==
    (IF rpc = "send" /\ rjob.url = s THEN 1 ELSE 0)
    + Cardinality({w \in Workers : wjob[w].url = s \/ werr[w].job.url = s})
    + Cardinality({i \in 1..Len(errorChn) : errorChn[i].job.url = s})
    + (IF hpc = "resend" /\ herr.job.url = s THEN 1 ELSE 0)
    + (IF spc = "sendErr" /\ serr.job.url = s THEN 1 ELSE 0)

Returned == mpc = "returned" /\ ~panicked

ShutdownStarted == broadcasts > 0

\* Every copy of a job that some task holds or that waits in errorChn.
JobCopies ==
    {j \in ({rjob, sjob, serr.job, herr.job}
              \cup {wjob[w] : w \in Workers}
              \cup {werr[w].job : w \in Workers}
              \cup {errorChn[i].job : i \in 1..Len(errorChn)}) : j.url # 0}

\* The failure records created so far for subject s (history).
RecordsCreated(s) ==
    failLog[s]["download"] + failLog[s]["summarize"] + failLog[s]["cleanup"]
      + failLog[s]["save"]

\* Sum of a per-subject counter.
RECURSIVE SumUpTo(_, _)
SumUpTo(f, n) == IF n = 0 THEN 0 ELSE f[n] + SumUpTo(f, n - 1)

\* Jobs that have left through writeResults: rows written whose decrement
\* (pipeline.go:170) has been executed.
Saved == SumUpTo(outFile, MaxSubjects) - (IF spc = "dec" THEN 1 ELSE 0)

\* Jobs that have left through handleError's eviction branch.
Evicted == SumUpTo(evicted, MaxSubjects)

\* The colors of the image scanned so far.
ImageColors == {c \in OpaqueColors : counts[c] > 0}

\* The colors getPrevalentColors returns.
ResultColors == {mostColors[i] : i \in 1..3}

\* ------------------------------------------------------------------- C1
\* C1: no subject is both written and evicted or resolved twice, a written
\* or evicted job is in no channel and with no worker afterwards, and once
\* the shutdown broadcast has started the source is exhausted and every
\* subject fed by readURLs has exactly one output row or exactly one
\* eviction.
C1_ExactlyOnce ==
    /\ \A s \in Subjects :
          /\ outFile[s] + evicted[s] <= 1
          /\ outFile[s] + evicted[s] = 1 => Holders(s) = 0
          /\ s > admitted => outFile[s] + evicted[s] = 0
    /\ ShutdownStarted =>
          /\ sourceURLs = <<>>
          /\ \A s \in 1..admitted : outFile[s] + evicted[s] = 1

\* Shutdown is complete after one subject was written and one evicted.
C1_Witness ==
    /\ stopOnce = "done"
    /\ admitted = 2
    /\ outFile[1] = 1
    /\ evicted[2] = 1

\* ------------------------------------------------------------------- C3
\* C3: the body of the shutdown broadcast is started at most once, at most
\* NWorkers tokens are ever sent on doneChn, closeChns closes the channels
\* at most once and no close panics.
C3_BroadcastOnce ==
    /\ broadcasts <= 1
    /\ tokensSent <= NWorkers
    /\ closed <= 1
    /\ ~panicked

\* writeResults and handleError are both inside stopWorkers.
C3_Witness ==
    /\ spc \in {"stop", "bcast"}
    /\ hpc \in {"stop", "bcast"}
    /\ broadcasts = 1

\* ------------------------------------------------------------------- C2
\* C2: for a non-empty source whose download, summarize, cleanup and write
\* steps all succeed, Run eventually returns and the output then holds
\* exactly one row per subject.
C2_RunReturns ==
    (Len(sourceURLs) >= 1 /\ [](faults = 0))
        => <>(/\ Returned
              /\ sourceURLs = <<>>
              /\ \A s \in 1..admitted : outFile[s] = 1)

\* ------------------------------------------------------------------- C4
\* C4: when writeResults and handleError have both called stopWorkers,
\* every worker and handleErrors eventually exit, the wait group reaches
\* zero and Run returns.
C4_RaceTerminates ==
    (spc \in {"stop", "bcast"} /\ hpc \in {"stop", "bcast"})
        ~> (/\ Returned
            /\ \A w \in Workers : wpc[w] = "exit"
            /\ hpc = "exit"
            /\ wg = 0)

\* ------------------------------------------------------------------- C5
\* The single subject's download has not succeeded and nothing else failed.
C5_DownloadNeverSucceeds ==
    /\ reached[1] <= 1
    /\ \A w \in Workers : ~(wpc[w] = "sendNext" /\ wjob[w].url = 1)

\* C5: with a single subject whose download always fails, the output stays
\* empty, exactly one eviction is recorded for it and Run returns.
C5_SingleFailureStops ==
    (Len(sourceURLs) = 1 /\ []C5_DownloadNeverSucceeds)
        => <>(Returned /\ outFile[1] = 0 /\ evicted[1] = 1)

\* ------------------------------------------------------------------- C6
\* C6: once readURLsDone is true and imageCount is 0, the shutdown
\* broadcast is eventually started.
C6_CompletionTriggers ==
    (readURLsDone /\ imageCount = 0) ~> ShutdownStarted

\* ------------------------------------------------------------------- C7
\* C7: with an empty source Run returns with empty output, all workers and
\* handleErrors having exited.
C7_EmptySourceReturns ==
    (sourceURLs = <<>> /\ admitted = 0)
        ~> (/\ Returned
            /\ \A s \in Subjects : outFile[s] = 0
            /\ \A w \in Workers : wpc[w] = "exit"
            /\ hpc = "exit")

\* ------------------------------------------------------------------- C8
\* C8: handleError receives a job at most RqJobMaxFails times; a job whose
\* stage has failed RqJobMaxFails times was never received by a later
\* stage and is never written, it is not evicted before its third record
\* and is evicted by the third; and every job evicted for a retryable kind
\* was received by handleError exactly RqJobMaxFails times.
C8_RetryBound ==
    \A s \in Subjects :
       /\ handled[s] <= RqJobMaxFails
       /\ \A k \in StageNames :
             failLog[s][k] = RqJobMaxFails =>
                /\ reached[s] = StageIdx(k)
                /\ outFile[s] = 0
                /\ handled[s] < RqJobMaxFails => evicted[s] = 0
                /\ handled[s] = RqJobMaxFails => evicted[s] = 1
       /\ (evicted[s] = 1 /\ failLog[s]["save"] = 0)
             => handled[s] = RqJobMaxFails

\* A job was evicted after its summarize step failed three times.
C8_Witness ==
    \E s \in Subjects :
       /\ failLog[s]["summarize"] = RqJobMaxFails
       /\ handled[s] = RqJobMaxFails
       /\ evicted[s] = 1

\* ------------------------------------------------------------------- C9
\* The run has left the scenario: the source is not [A, B] (subjects 1 and
\* 2), or something other than A's first two downloads failed, or A's
\* download succeeded before its third attempt.
C9_Deviation ==
    \/ admitted + Len(sourceURLs) # 2
    \/ \E k \in StageNames \cup {"save"} : failLog[2][k] > 0
    \/ \E k \in {"summarize", "cleanup", "save"} : failLog[1][k] > 0
    \/ failLog[1]["download"] > 2
    \/ /\ failLog[1]["download"] < 2
       /\ \/ reached[1] >= 2
          \/ \E w \in Workers : wpc[w] = "sendNext" /\ wjob[w].url = 1

\* Every copy of job A after its successful download carries nFails = 2.
C9_CounterIsTwo ==
    /\ \A w \in Workers :
          (wjob[w].url = 1 /\ (w[1] # "download" \/ wpc[w] = "sendNext"))
             => wjob[w].nFails = 2
    /\ sjob.url = 1 => sjob.nFails = 2

\* C9: with source [A, B], A's download failing on its first two attempts
\* and nothing else failing, A and B are both eventually in the output,
\* never more than once, and A's failure counter is 2 from its successful
\* download to its write.
C9_RetryScenario ==
    /\ ([]~C9_Deviation) => <>(outFile[1] = 1 /\ outFile[2] = 1)
    /\ [](C9_Deviation \/ (C9_CounterIsTwo /\ outFile[1] <= 1
                             /\ outFile[2] <= 1))

\* Both rows are written after A's two failed downloads.
C9_Witness ==
    /\ ~C9_Deviation
    /\ failLog[1]["download"] = 2
    /\ outFile[1] = 1
    /\ outFile[2] = 1

\* ------------------------------------------------------------------ C10
\* C10: whenever handleError re-sends a job, the receiver is a worker of
\* the stage that reported the failure, waiting on the job's retryChn.
C10_RetrySameStage ==
    [][(hpc = "resend" /\ hpc' = "select") =>
          \E w \in Workers :
             /\ wpc[w] = "select"
             /\ wpc'[w] \in {"sendNext", "sendErr"}
             /\ herr.job.url \in {wjob'[w].url, werr'[w].job.url}
             /\ ErrKind(w[1]) = herr.errorType
             /\ InChn(w[1]) = herr.job.retryChn]_vars

\* A cleanup worker holds a job that was re-sent to it after a failure.
C10_Witness ==
    \E w \in Workers :
       /\ w[1] = "cleanup"
       /\ wpc[w] = "sendNext"
       /\ failLog[wjob[w].url]["cleanup"] > 0

\* ------------------------------------------------------------------ C11
\* C11: when handleError takes a record from errorChn it evicts the job
\* (imageCount goes down by one, the job is not re-sent) if the kind is
\* RqErrorNoRetry or nFails >= RqJobMaxFails or retryChn is nil, and
\* otherwise holds the job for the send on its retryChn with imageCount
\* unchanged; that send hands the job to a worker waiting on retryChn,
\* again with imageCount unchanged, and is never made after an eviction.
C11_EvictIff ==
    [][/\ (hpc = "select" /\ errorChn # <<>> /\ errorChn' = Tail(errorChn)) =>
             LET e == Head(errorChn) IN
                IF \/ e.errorType = RqErrorNoRetry
                   \/ e.job.nFails >= RqJobMaxFails
                   \/ e.job.retryChn = "nil"
                THEN /\ imageCount' = imageCount - 1
                     /\ evicted' = [evicted EXCEPT ![e.job.url] = @ + 1]
                     /\ hpc' = "check"
                     /\ herr' = NoError
                     /\ workerVars' = workerVars
                ELSE /\ imageCount' = imageCount
                     /\ evicted' = evicted
                     /\ hpc' = "resend"
                     /\ herr' = e
       /\ (hpc' = "resend" /\ hpc # "resend") => hpc = "select"
       /\ (hpc = "resend" /\ hpc' # "resend") =>
             /\ hpc' = "select"
             /\ imageCount' = imageCount
             /\ evicted' = evicted
             /\ \E w \in Workers :
                   /\ InChn(w[1]) = herr.job.retryChn
                   /\ wpc[w] = "select"
                   /\ wpc'[w] # "select"
                   /\ herr.job.url \in {wjob'[w].url, werr'[w].job.url}]_vars

\* handleError has evicted one job and holds another for its re-send.
C11_Witness ==
    /\ hpc = "resend"
    /\ \E s \in Subjects : evicted[s] = 1 /\ herr.job.url # s

\* ------------------------------------------------------------------ C12
\* C12: every copy of every job has 0 <= nFails <= RqJobMaxFails, and its
\* nFails is the number of failure records created for that job so far.
C12_FailCount ==
    \A j \in JobCopies :
       /\ j.nFails >= 0
       /\ j.nFails <= RqJobMaxFails
       /\ j.nFails = RecordsCreated(j.url)

\* A record with nFails = RqJobMaxFails waits in errorChn while the world
\* could still produce another failure.
C12_Witness ==
    /\ errorChn # <<>>
    /\ Head(errorChn).job.nFails = RqJobMaxFails
    /\ faults < faultBudget

\* ------------------------------------------------------------------ C13
\* C13: imageCount equals the number of subjects admitted by readURLs
\* minus the jobs that left (written and decremented by writeResults, or
\* evicted by handleError), no job is both written and evicted, and
\* imageCount never goes below zero.
C13_InFlightCount ==
    /\ imageCount = admitted - (Saved + Evicted)
    /\ imageCount >= 0
    /\ \A s \in Subjects : outFile[s] + evicted[s] <= 1

\* Two subjects were admitted, one left by a write and one by an eviction.
C13_Witness ==
    /\ admitted = 2
    /\ imageCount = 0
    /\ Saved = 1
    /\ Evicted = 1

\* ------------------------------------------------------------------ C14
\* C14: from a state in which readURLsDone is set and jobs are still in
\* flight, whenever imageCount is 0 afterwards, writeResults or handleError
\* is about to evaluate isDone() after its decrement, or is calling
\* stopWorkers, or the broadcast has started: the decrements of the last
\* jobs never leave the count at 0 with nobody triggering the shutdown.
C14_LastDecrementTriggers ==
    []((readURLsDone /\ imageCount >= 1) =>
          [](imageCount = 0 =>
                \/ spc \in {"check", "stop"}
                \/ hpc \in {"check", "stop"}
                \/ ShutdownStarted))

\* After readURLsDone was set, writeResults and handleError have both
\* decremented and both are about to evaluate isDone().
C14_Witness ==
    /\ readURLsDone
    /\ imageCount = 0
    /\ spc = "check"
    /\ hpc = "check"

\* ------------------------------------------------------------------ C15
\* C15: once the shutdown broadcast has started, NWorkers tokens are sent
\* on doneChn and each of the NWorkers token-consuming tasks started by
\* Run (the stage workers and handleErrors) receives one and exits.
C15_EveryTaskGetsToken ==
    ShutdownStarted
        ~> (/\ tokensSent = NWorkers
            /\ Cardinality(Workers) + 1 = NWorkers
            /\ \A w \in Workers : wpc[w] = "exit"
            /\ hpc = "exit")

\* ------------------------------------------------------------------ C16
\* C16: when closeChns has run, every stage worker and handleErrors have
\* exited, readURLs has returned, writeResults has returned or has sent
\* its last token and has only to return, so no task is at a send, and no
\* send on a closed channel has happened.
C16_CloseAfterExit ==
    closed > 0 =>
       /\ \A w \in Workers : wpc[w] = "exit"
       /\ hpc = "exit"
       /\ rpc = "exit"
       /\ spc = "exit" \/ (spc = "bcast" /\ si = NWorkers)
       /\ tokensSent = NWorkers
       /\ wg = 0
       /\ ~panicked

\* closeChns has run after a job was written and another evicted.
C16_Witness ==
    /\ closed = 1
    /\ \E s \in Subjects : outFile[s] = 1
    /\ \E s \in Subjects : evicted[s] = 1

\* ------------------------------------------------------------------ C17
\* C17: a job held by a summarize worker has been downloaded (it has its
\* file), a job held by a cleanup worker has been summarized, a job
\* received by writeResults has been summarized and cleaned up, and the
\* stage that holds a job or reported its failure is the furthest stage
\* that ever received it: no stage is skipped and no earlier stage
\* processes a job again.
C17_StageOrder ==
    /\ \A w \in Workers :
          LET j == IF wpc[w] = "sendErr" THEN werr[w].job ELSE wjob[w] IN
             j.url # 0 =>
                /\ reached[j.url] = StageIdx(w[1])
                /\ w[1] = "download" =>
                      /\ ~j.summary
                      /\ j.filePath # "" <=> wpc[w] = "sendNext"
                /\ w[1] = "summarize" =>
                      /\ j.filePath # ""
                      /\ j.summary <=> wpc[w] = "sendNext"
                /\ w[1] = "cleanup" =>
                      /\ j.summary
                      /\ j.filePath = "" <=> wpc[w] = "sendNext"
    /\ \A j \in {sjob, serr.job} :
          j.url # 0 =>
             /\ reached[j.url] = StageIdx("save")
             /\ j.summary
             /\ j.filePath = ""
    /\ \A e \in {herr} \cup {errorChn[i] : i \in 1..Len(errorChn)} :
          e.job.url # 0 =>
             \/ e.errorType = RqErrorNoRetry
                  /\ reached[e.job.url] = StageIdx("save")
             \/ \E k \in StageNames :
                   /\ e.errorType = ErrKind(k)
                   /\ reached[e.job.url] = StageIdx(k)
    /\ \A s \in Subjects :
          /\ outFile[s] > 0 => reached[s] = StageIdx("save")
          /\ (rpc = "send" /\ rjob.url = s) => reached[s] = 0

\* A job is written after its summarize step failed once and its cleanup
\* step failed once.
C17_Witness ==
    \E s \in Subjects :
       /\ outFile[s] = 1
       /\ failLog[s]["summarize"] = 1
       /\ failLog[s]["cleanup"] = 1

\* ------------------------------------------------------------------ C18
\* C18: every admitted job that is neither written nor evicted is held by
\* exactly one place (the pending send of readURLs, a stage worker, the
\* buffer of errorChn, handleError's pending re-send or writeResults'
\* pending report), no job is ever held by two places, a worker never
\* holds a job and a record at once, and a subject not yet admitted is held
\* nowhere.
C18_OneOwner ==
    /\ \A s \in Subjects :
          /\ Holders(s) <= 1
          /\ (s <= admitted /\ outFile[s] + evicted[s] = 0) => Holders(s) = 1
          /\ s > admitted => Holders(s) = 0
    /\ \A w \in Workers : wjob[w] = NoJob \/ werr[w] = NoError
    /\ \A w \in Workers : wpc[w] \in {"idle", "select", "exit"} =>
                             (wjob[w] = NoJob /\ werr[w] = NoError)

\* Two unresolved jobs, one waiting in errorChn and one held by a worker
\* for its send on nextChn.
C18_Witness ==
    /\ Len(errorChn) = 1
    /\ \E w \in Workers :
          /\ wpc[w] = "sendNext"
          /\ wjob[w].url # errorChn[1].job.url

\* ------------------------------------------------------------------ C19
\* C19: every outcome of downloadImage, summarizeImage and cleanupImage on
\* any job is either the job for nextChn with no record, or one record of
\* that job for errorChn with no job; a worker that has run its stage
\* function stands at exactly one send with exactly one message; and the
\* send on nextChn delivers that job to one receiver and puts nothing on
\* errorChn, while the send on errorChn appends that one record and hands
\* no job to anyone.
C19_OneMessage ==
    /\ [](/\ \A k \in StageNames : \A j \in JobCopies : \A o \in Work(k, j) :
                \/ /\ o.kind = "ok"
                   /\ o.job.url = j.url
                   /\ o.job.nextChn = OutChn(k)
                   /\ o.err = NoError
                \/ /\ o.kind = "err"
                   /\ o.job = NoJob
                   /\ o.err.job.url = j.url
          /\ \A w \in Workers :
                /\ wpc[w] = "sendNext" => (wjob[w] # NoJob /\ werr[w] = NoError)
                /\ wpc[w] = "sendErr" => (wjob[w] = NoJob /\ werr[w] # NoError)
                /\ wpc[w] \in {"idle", "select", "exit"}
                      => (wjob[w] = NoJob /\ werr[w] = NoError))
    /\ [][\A w \in Workers :
            /\ (wpc[w] = "sendNext" /\ wpc'[w] # "sendNext") =>
                  /\ errorChn' = errorChn
                  /\ wjob'[w] = NoJob
                  /\ \/ \E w2 \in Workers \ {w} :
                          /\ wpc[w2] = "select"
                          /\ InChn(w2[1]) = wjob[w].nextChn
                          /\ wjob[w].url \in {wjob'[w2].url, werr'[w2].job.url}
                          /\ \A w3 \in Workers \ {w, w2} :
                                wjob'[w3] = wjob[w3] /\ werr'[w3] = werr[w3]
                          /\ sjob' = sjob /\ serr' = serr
                     \/ /\ wjob[w].nextChn = "saveChn"
                        /\ spc = "recv"
                        /\ wjob[w].url \in {sjob'.url, serr'.job.url}
                        /\ \A w3 \in Workers \ {w} :
                              wjob'[w3] = wjob[w3] /\ werr'[w3] = werr[w3]
            /\ (wpc[w] = "sendErr" /\ wpc'[w] # "sendErr") =>
                  /\ errorChn' = Append(errorChn, werr[w])
                  /\ werr'[w] = NoError
                  /\ wjob' = wjob
                  /\ sjob' = sjob /\ serr' = serr]_vars

\* One worker stands at its send on errorChn, another at its send on
\* nextChn.
C19_Witness ==
    \E w1, w2 \in Workers :
       /\ wpc[w1] = "sendErr"
       /\ wpc[w2] = "sendNext"

C21_EvictionReleasesFiles ==
    \A s \in Subjects : evicted[s] = 1 => tmpFiles[s] = 0

\* ------------------------------------------------------------------ C23
\* C23: Init returns an error exactly when a worker count of the config is
\* <= 0, or no source was set, or no output was set.
C23_InitRejects ==
    initResult # "none" =>
       (initResult = "error" <=>
           \/ cfg.Download <= 0
           \/ cfg.Summarize <= 0
           \/ cfg.Cleanup <= 0
           \/ ~hasSource
           \/ ~hasOutput)

\* Init has rejected a pipeline whose only defect is a download count of 0.
C23_Witness ==
    /\ initResult = "error"
    /\ cfg.Download = 0
    /\ cfg.Summarize >= 1
    /\ cfg.Cleanup >= 1
    /\ hasSource
    /\ hasOutput

\* ------------------------------------------------------------------ C24
\* C24: a call of cleanupImage on a job whose filePath is empty sends the
\* job, unchanged, on nextChn, sends nothing on errorChn and leaves the
\* disk alone; and every job that cleanupImage forwards is forwarded again
\* as it is by a further call.
C24_CleanupNoFile ==
    /\ [][(cCalls' = cCalls + 1 /\ cjob.filePath = "") =>
             /\ cNext' = Append(cNext, cjob)
             /\ cErrs' = cErrs
             /\ cFiles' = cFiles
             /\ cjob' = cjob]_vars
    /\ [](\A i \in 1..Len(cNext) : cNext[i] = cNext[1])

\* Two calls in a row on a job that never had a file: two identical jobs
\* on nextChn, no record, and the file on disk is still there.
C24_Witness ==
    /\ cCalls = 2
    /\ Len(cNext) = 2
    /\ cNext[1] = cNext[2]
    /\ cErrs = <<>>
    /\ cFiles = 1

\* ------------------------------------------------------------------ C25
\* C25: no color of the image that is left out of the result has a
\* strictly greater pixel count than a color in the result.
C25_ThreeMostPrevalent ==
    \A c \in ImageColors \ ResultColors :
       \A i \in 1..3 : counts[c] <= counts[mostColors[i]]

\* ------------------------------------------------------------------ C26
\* C26: the result is in descending order of pixel count.
C26_SortedByPrevalence ==
    /\ counts[mostColors[1]] >= counts[mostColors[2]]
    /\ counts[mostColors[2]] >= counts[mostColors[3]]

\* ------------------------------------------------------------------ C27
\* C27: for an image of k < 3 distinct colors the first k slots of the
\* result hold those k colors and the other slots hold PlaceholderColor.
C27_PlaceholdersLast ==
    LET k == Cardinality(ImageColors) IN
       k < 3 =>
          /\ {mostColors[i] : i \in 1..k} = ImageColors
          /\ \A i \in (k + 1)..3 : mostColors[i] = PlaceholderColor

\* An image of two colors in which the second color has overtaken the
\* first.
C27_Witness ==
    /\ Cardinality(ImageColors) = 2
    /\ mostColors[3] = PlaceholderColor
    /\ counts[mostColors[1]] > counts[mostColors[2]]
    /\ mostColors[1][1] > mostColors[2][1]
    /\ scanned >= 3

\* ------------------------------------------------------------------ C28
\* C28: a stage worker or handleErrors that has taken a token stays
\* exited: it holds nothing, receives no job and no record and sends
\* nothing afterwards; a task exits only by taking a token from its
\* select, and that step alone lowers the wait group, by one; so the wait
\* group always counts the token-consuming tasks that have not exited.
C28_ExitAfterToken ==
    /\ [](/\ \A w \in Workers :
                wpc[w] = "exit" => (wjob[w] = NoJob /\ werr[w] = NoError)
          /\ hpc = "exit" => herr = NoError
          /\ mpc # "init" =>
                wg = NWorkers - Cardinality({w \in Workers : wpc[w] = "exit"})
                       - (IF hpc = "exit" THEN 1 ELSE 0))
    /\ [][/\ \A w \in Workers :
               /\ wpc[w] = "exit" =>
                     /\ wpc'[w] = "exit"
                     /\ wjob'[w] = NoJob
                     /\ werr'[w] = NoError
               /\ (wpc[w] # "exit" /\ wpc'[w] = "exit") =>
                     /\ wpc[w] = "select"
                     /\ tokensSent' = tokensSent + 1
                     /\ wg' = wg - 1
          /\ hpc = "exit" =>
                /\ hpc' = "exit"
                /\ herr' = NoError
                /\ Len(errorChn') >= Len(errorChn)
          /\ (hpc # "exit" /\ hpc' = "exit") =>
                /\ hpc = "select"
                /\ tokensSent' = tokensSent + 1
                /\ wg' = wg - 1
          /\ wg' # wg =>
                \/ mpc = "init"
                \/ /\ wg' = wg - 1
                   /\ tokensSent' = tokensSent + 1]_vars

\* In the middle of the broadcast: a worker and handleErrors have exited,
\* another worker still waits in its select.
C28_Witness ==
    /\ hpc = "exit"
    /\ \E w1, w2 \in Workers : wpc[w1] = "exit" /\ wpc[w2] = "select"

\* ------------------------------------------------------------------ C29
\* What worker w has in hand: the job to forward or the record to report.
InHand(w) == (IF wjob[w] # NoJob THEN 1 ELSE 0)
             + (IF werr[w] # NoError THEN 1 ELSE 0)

\* The workers of a stage that are processing a job.
Busy(stage) == {w \in Workers : w[1] = stage /\ InHand(w) > 0}

\* C29: a stage worker has at most one job in hand, none while it waits
\* in its select, and takes a job only from its select with nothing in
\* hand; so no stage processes more jobs than it has workers, and
\* readURLs keeps its job while every download worker is busy.
C29_OneJobPerWorker ==
    /\ [](/\ \A w \in Workers :
                /\ InHand(w) <= 1
                /\ wpc[w] \in {"idle", "select", "exit"} <=> InHand(w) = 0
                /\ wpc[w] = "sendNext" => wjob[w] # NoJob
                /\ wpc[w] = "sendErr" => werr[w] # NoError
          /\ Cardinality(Busy("download")) <= nDownload
          /\ Cardinality(Busy("summarize")) <= nSummarize
          /\ Cardinality(Busy("cleanup")) <= nCleanup)
    /\ [][/\ \A w \in Workers :
               (/\ <<wjob'[w], werr'[w]>> # <<wjob[w], werr[w]>>
                /\ <<wjob'[w], werr'[w]>> # <<NoJob, NoError>>)
               => (wpc[w] = "select" /\ InHand(w) = 0)
          /\ (rpc = "send" /\ Busy("download") = {w \in Workers :
                                                   w[1] = "download"})
             => (rpc' = "send" /\ rjob' = rjob)
          /\ (rpc = "send" /\ rpc' # "send")
             => \E w \in Workers :
                   /\ w[1] = "download"
                   /\ wpc[w] = "select"
                   /\ InHand(w)' = 1]_vars

\* readURLs stands at its send while every download worker is busy.
C29_Witness ==
    /\ rpc = "send"
    /\ rjob # NoJob
    /\ \A w \in Workers : w[1] = "download" => wpc[w] = "sendNext"

\* ------------------------------------------------------------------ C30
\* The records of subject s that wait in errorChn.
Pending(s) == {i \in 1..Len(errorChn) : errorChn[i].job.url = s}

\* The records of subject s sent to errorChn so far: those created less
\* those whose send is still pending.
RecordsSent(s) ==
    RecordsCreated(s)
      - Cardinality({w \in Workers : werr[w].job.url = s})
      - (IF spc = "sendErr" /\ serr.job.url = s THEN 1 ELSE 0)

\* The record of subject s with n failures waits in errorChn.
InErrorChn(s, n) ==
    \E i \in Pending(s) : errorChn[i].job.nFails = n

\* C30: every record sent to errorChn is received exactly once and only
\* by handleErrors: the records received and those waiting add up to the
\* records sent, a record leaves errorChn only as the head taken by
\* handleErrors from its select, every waiting record eventually leaves,
\* and errorChn is empty from the start of the shutdown broadcast on.
C30_RecordsReceivedOnce ==
    /\ [](/\ \A s \in Subjects :
                handled[s] + Cardinality(Pending(s)) = RecordsSent(s)
          /\ ShutdownStarted => errorChn = <<>>)
    /\ [][Len(errorChn') < Len(errorChn) =>
             /\ hpc = "select"
             /\ hpc' \in {"check", "resend"}
             /\ errorChn' = Tail(errorChn)
             /\ handled' = [handled EXCEPT
                              ![Head(errorChn).job.url] = @ + 1]
             /\ wpc' = wpc
             /\ rpc' = rpc
             /\ spc' = spc]_vars
    /\ \A s \in Subjects : \A n \in 1..RqJobMaxFails :
          InErrorChn(s, n) ~> ~InErrorChn(s, n)

\* The shutdown has started after handleErrors received records of every
\* subject.
C30_Witness ==
    /\ ShutdownStarted
    /\ errorChn = <<>>
    /\ \A s \in Subjects : handled[s] > 0

\* ------------------------------------------------------------------ C31
\* Every failure record in existence: in a task's hand or in errorChn.
Records ==
    {e \in ({serr, herr} \cup {werr[w] : w \in Workers}
              \cup {errorChn[i] : i \in 1..Len(errorChn)}) : e # NoError}

\* The stage whose worker bound the job of record e last.
BoundBy(e) ==
    CASE e.job.retryChn = "downloadChn" -> "download"
      [] e.job.retryChn = "summarizeChn" -> "summarize"
      [] e.job.retryChn = "cleanupChn" -> "cleanup"
      [] OTHER -> "none"

\* C31: the kind of a failure record identifies its producer: the record
\* a stage worker has in hand carries the kind of its stage, the record
\* of writeResults is RqErrorNoRetry, and wherever a record is, its kind
\* is RqErrorDownload, RqErrorSummarize or RqErrorCleanup exactly when
\* the download, summarize or cleanup worker bound its job, and
\* RqErrorNoRetry only for a job that came through the cleanup stage.
C31_KindIdentifiesStage ==
    /\ \A w \in Workers :
          werr[w] # NoError => werr[w].errorType = ErrKind(w[1])
    /\ serr # NoError => serr.errorType = RqErrorNoRetry
    /\ \A e \in Records :
          /\ e.errorType \in {RqErrorDownload, RqErrorSummarize,
                              RqErrorCleanup, RqErrorNoRetry}
          /\ e.errorType = RqErrorDownload <=> BoundBy(e) = "download"
          /\ e.errorType = RqErrorSummarize <=> BoundBy(e) = "summarize"
          /\ e.errorType = RqErrorNoRetry =>
                (BoundBy(e) = "cleanup" /\ e.job.nextChn = "saveChn")
          /\ e.errorType = RqErrorCleanup =>
                (BoundBy(e) = "cleanup" /\ e.job.filePath # "")

\* A summarize failure and a failed write wait in errorChn together.
C31_Witness ==
    \E i, j \in 1..Len(errorChn) :
       /\ errorChn[i].errorType = RqErrorSummarize
       /\ errorChn[j].errorType = RqErrorNoRetry

\* ------------------------------------------------------------------ C32
\* The completion conjunction that isDone evaluates.
Completion == readURLsDone /\ imageCount = 0

\* readURLs has admitted every subject and nobody holds a job.
Quiescent ==
    /\ sourceURLs = <<>>
    /\ rpc = "exit"
    /\ \A s \in Subjects : Holders(s) = 0
    /\ \A w \in Workers : wjob[w] = NoJob /\ werr[w] = NoError
    /\ errorChn = <<>>
    /\ herr = NoError
    /\ serr = NoError

\* A caller of isDone got true: it is about to call stopWorkers, or the
\* broadcast has started.
StopCalled == spc = "stop" \/ hpc = "stop" \/ ShutdownStarted

\* C32: shutdown is never premature: whenever the completion conjunction
\* holds, and whenever stopWorkers has been called, readURLs has admitted
\* every subject and no job is held anywhere; and the conjunction, once
\* true, stays true.
C32_NeverPremature ==
    /\ [](Completion => Quiescent)
    /\ [](StopCalled => (Completion /\ Quiescent))
    /\ [][Completion => Completion']_vars

\* handleError is about to call stopWorkers after the last eviction, a
\* row having been written for another subject.
C32_Witness ==
    /\ hpc = "stop"
    /\ \E s \in Subjects : outFile[s] = 1
    /\ \E s \in Subjects : evicted[s] = 1

\* ------------------------------------------------------------------ C33
\* Runs of the stage functions on subject s, all stages together.
Attempts(s) ==
    attempts[s]["download"] + attempts[s]["summarize"]
      + attempts[s]["cleanup"]

\* The stages at which subject s has failed.
FailedStages(s) == {k \in StageNames \cup {"save"} : failLog[s][k] > 0}

\* C33: the failure count of a job is never reset: every copy of a job
\* carries the number of failures of its subject at all stages together;
\* a subject fails at most RqJobMaxFails times overall and is evicted
\* when handleError receives its third record, whatever the stages; each
\* stage function succeeds at most once per subject, and a subject is
\* attempted at most RqJobMaxFails + 2 times.
C33_SharedRetryBudget ==
    \A s \in Subjects :
       /\ \A j \in JobCopies : j.url = s => j.nFails = RecordsCreated(s)
       /\ RecordsCreated(s) <= RqJobMaxFails
       /\ handled[s] = RqJobMaxFails => evicted[s] = 1
       /\ \A k \in StageNames : attempts[s][k] - failLog[s][k] \in {0, 1}
       /\ Attempts(s) <= RqJobMaxFails + 2

\* A subject evicted after three failures at three different stages and
\* five attempts.
C33_Witness ==
    \E s \in Subjects :
       /\ evicted[s] = 1
       /\ Cardinality(FailedStages(s)) = 3
       /\ Attempts(s) = RqJobMaxFails + 2

\* ------------------------------------------------------------------ C34
\* C34: a job on its way to saveChn, the job writeResults has received
\* and the job of the record writeResults reports have an empty filePath;
\* when a row exists for a subject the file its download gave it has been
\* removed: the files left on disk for it are at most those of its failed
\* downloads, whose names no job ever carried.
C34_SavedJobHasNoFile ==
    /\ \A w \in Workers :
          wjob[w].nextChn = "saveChn" => wjob[w].filePath = ""
    /\ sjob.filePath = ""
    /\ serr.job.filePath = ""
    /\ \A s \in Subjects :
          (outFile[s] > 0 \/ failLog[s]["save"] > 0) =>
             /\ tmpFiles[s] <= failLog[s]["download"]
             /\ \A j \in JobCopies : j.url = s => j.filePath = ""

\* writeResults has written the row of a downloaded and summarized job
\* whose file is gone.
C34_Witness ==
    /\ spc = "dec"
    /\ sjob.summary
    /\ outFile[sjob.url] = 1
    /\ attempts[sjob.url]["download"] = 1
    /\ tmpFiles[sjob.url] = 0

\* ------------------------------------------------------------------ C35
\* The jobs a worker can receive in a step: the one readURLs, a worker or
\* handleError is sending.
Offered ==
    {j \in ({rjob, herr.job} \cup {wjob[w] : w \in Workers}) : j # NoJob}

\* Job new is job old after a successful run of the stage function of
\* stage: same URL and failure count, the stage's payload and the routing
\* fields aside.
SuccessFrame(stage, old, new) ==
    /\ new.url = old.url
    /\ new.nFails = old.nFails
    /\ stage \in {"download", "cleanup"} => new.summary = old.summary
    /\ stage = "summarize" => new.filePath = old.filePath

\* C35: a job keeps its URL from admission to its save or eviction (a
\* subject stops being held only in the step that writes its row or
\* evicts it, and the job writeResults receives is the job the cleanup
\* worker sent), and a worker's successful stage function leaves the URL
\* and the failure count of the job it received unchanged, changing only
\* its own payload and the routing fields; a failed one changes only the
\* failure count and the routing fields.
C35_JobFrame ==
    [][/\ \A s \in Subjects :
            (Holders(s) > 0 /\ Holders(s)' = 0) =>
               \/ evicted'[s] = evicted[s] + 1
               \/ outFile'[s] = outFile[s] + 1
       /\ \A s \in Subjects :
            (Holders(s) = 0 /\ Holders(s)' > 0) =>
               /\ admitted' = admitted + 1
               /\ rjob' = NewRqJob(s)
       /\ (sjob' # sjob /\ sjob' # NoJob) => sjob' \in Offered
       /\ \A w \in Workers :
            /\ (wjob'[w] # wjob[w] /\ wjob'[w] # NoJob) =>
                  \E old \in Offered : SuccessFrame(w[1], old, wjob'[w])
            /\ (werr'[w] # werr[w] /\ werr'[w] # NoError) =>
                  \E old \in Offered :
                     werr'[w].job = [Rebind(w[1], old) EXCEPT
                                       !.nFails = old.nFails + 1]]_vars

\* The summarize worker forwards a job that failed before: it has the
\* file of its download, its summary and its failure count.
C35_Witness ==
    \E w \in Workers :
       /\ w[1] = "summarize"
       /\ wpc[w] = "sendNext"
       /\ wjob[w].filePath = "tmp"
       /\ wjob[w].summary
       /\ wjob[w].nFails = 2

\* ------------------------------------------------------------------ C36
\* C36: every failure record, in the hand of its producer, in errorChn
\* or in the hand of handleError, carries a bound retryChn, so a record
\* that handleError evicts is non-retryable or has used up its failures,
\* and every eviction follows a failed write or a third failure.
C36_RetryChnBound ==
    /\ \A e \in Records :
          /\ e.job.retryChn \in {"downloadChn", "summarizeChn", "cleanupChn"}
          /\ ShouldEvict(e) =>
                \/ e.errorType = RqErrorNoRetry
                \/ e.job.nFails >= RqJobMaxFails
    /\ \A s \in Subjects :
          evicted[s] > 0 =>
             \/ failLog[s]["save"] > 0
             \/ RecordsCreated(s) >= RqJobMaxFails

\* handleError has passed the retryChn test and is sending a job back to
\* the summarize stage, another subject having been evicted.
C36_Witness ==
    /\ hpc = "resend"
    /\ herr.job.retryChn = "summarizeChn"
    /\ \E s \in Subjects : evicted[s] = 1

====
